---- MODULE Spec2Model ----
(***************************************************************************)
(* Payroll computation of app/services/payroll.py:                         *)
(* PayrollService.get_payroll_stats over a relational store.               *)
(*                                                                         *)
(* Dates are day numbers; day 0 is a Monday, so date.weekday() is d % 7    *)
(* (0 = Monday .. 6 = Sunday).  Money is decimal.Decimal under Python's    *)
(* default context: every operation returns the exact result rounded       *)
(* half-even to DecimalPrec significant digits.  A Decimal is modelled by  *)
(* its numeric value [neg, dig, exp]: dig is the coefficient as a sequence *)
(* of decimal digits, most significant first, without leading or trailing  *)
(* zeros (<<>> is zero), so Python's numeric == is equality of records.    *)
(***************************************************************************)
EXTENDS Integers, Sequences, FiniteSets, TLC

(***************************************************************************)
(* decimal.Decimal                                                         *)
(***************************************************************************)
DecimalPrec == 28

DecZero == [neg |-> FALSE, dig |-> <<>>, exp |-> 0]

RECURSIVE StripLead(_)
StripLead(d) ==
  IF d # <<>> /\ Head(d) = 0 THEN StripLead(Tail(d)) ELSE d

RECURSIVE TrailZeros(_, _)
TrailZeros(d, n) ==
  IF n > 0 /\ d[n] = 0 THEN 1 + TrailZeros(d, n - 1) ELSE 0

Zeros(k) == [i \in 1..k |-> 0]

\* The value (-1)^neg * dig * 10^exp in canonical form.
DecNorm(neg, dig, exp) ==
  LET d == StripLead(dig)
      z == TrailZeros(d, Len(d))
  IN  IF d = <<>> THEN DecZero
      ELSE [neg |-> neg, dig |-> SubSeq(d, 1, Len(d) - z), exp |-> exp + z]

\* dig + 1 on a digit sequence (may grow by one digit).
RECURSIVE IncDigits(_, _)
IncDigits(d, i) ==
  IF i = 0 THEN <<1>> \o d
  ELSE IF d[i] < 9 THEN [d EXCEPT ![i] = d[i] + 1]
  ELSE IncDigits([d EXCEPT ![i] = 0], i - 1)

RECURSIVE AnyNonZero(_, _)
AnyNonZero(d, i) ==
  IF i > Len(d) THEN FALSE ELSE d[i] # 0 \/ AnyNonZero(d, i + 1)

\* Context rounding (ROUND_HALF_EVEN) of dig * 10^exp, plus a non-zero
\* remainder below the last digit when sticky, to DecimalPrec digits.
DecRound(neg, dig, exp, sticky) ==
  LET d == StripLead(dig)
      n == Len(d)
  IN  IF n <= DecimalPrec THEN DecNorm(neg, d, exp)
      ELSE LET keep == SubSeq(d, 1, DecimalPrec)
               g    == d[DecimalPrec + 1]
               more == sticky \/ AnyNonZero(d, DecimalPrec + 2)
               up   == g > 5 \/ (g = 5 /\ (more \/ keep[DecimalPrec] % 2 = 1))
           IN  DecNorm(neg,
                       IF up THEN IncDigits(keep, DecimalPrec) ELSE keep,
                       exp + (n - DecimalPrec))

RECURSIVE IntDigits(_)
IntDigits(n) == IF n < 10 THEN <<n>> ELSE Append(IntDigits(n \div 10), n % 10)

\* Decimal(n) for an int n.
DecOfInt(n) ==
  IF n < 0 THEN DecNorm(TRUE, IntDigits(-n), 0) ELSE DecNorm(FALSE, IntDigits(n), 0)

DecIsPos(x) == x.dig # <<>> /\ ~x.neg

DecNeg(x) == IF x.dig = <<>> THEN x ELSE [x EXCEPT !.neg = ~x.neg]

\* Long division of the digit sequence d by the int n: <<quotient, remainder>>.
RECURSIVE DivDigits(_, _, _, _, _)
DivDigits(d, n, i, rem, q) ==
  IF i > Len(d) THEN <<q, rem>>
  ELSE LET cur == rem * 10 + d[i]
       IN  DivDigits(d, n, i + 1, cur % n, Append(q, cur \div n))

\* x / Decimal(n), n a positive int.
DecDivInt(x, n) ==
  IF x.dig = <<>> THEN DecZero
  ELSE LET k  == DecimalPrec + 1 + Len(IntDigits(n))
           qr == DivDigits(x.dig \o Zeros(k), n, 1, 0, <<>>)
       IN  DecRound(x.neg, qr[1], x.exp - k, qr[2] # 0)

\* Digit sequence d times the int m >= 0, right to left with carry.
RECURSIVE MulDigits(_, _, _, _, _)
MulDigits(d, m, i, carry, acc) ==
  IF i = 0 THEN (IF carry = 0 THEN acc ELSE IntDigits(carry) \o acc)
  ELSE LET cur == d[i] * m + carry
       IN  MulDigits(d, m, i - 1, cur \div 10, <<cur % 10>> \o acc)

\* x * Decimal(m), m a non-negative int.
DecMulInt(x, m) ==
  DecRound(x.neg, MulDigits(x.dig, m, Len(x.dig), 0, <<>>), x.exp, FALSE)

\* Magnitudes as digit sequences of equal length.
RECURSIVE AddDigits(_, _, _, _, _)
AddDigits(a, b, i, carry, acc) ==
  IF i = 0 THEN (IF carry = 0 THEN acc ELSE <<carry>> \o acc)
  ELSE LET cur == a[i] + b[i] + carry
       IN  AddDigits(a, b, i - 1, cur \div 10, <<cur % 10>> \o acc)

\* a - b for magnitudes of equal length with a >= b.
RECURSIVE SubDigits(_, _, _, _, _)
SubDigits(a, b, i, borrow, acc) ==
  IF i = 0 THEN acc
  ELSE LET cur == a[i] - b[i] - borrow
       IN  IF cur < 0 THEN SubDigits(a, b, i - 1, 1, <<cur + 10>> \o acc)
           ELSE SubDigits(a, b, i - 1, 0, <<cur>> \o acc)

RECURSIVE LessDigits(_, _, _)
LessDigits(a, b, i) ==
  IF i > Len(a) THEN FALSE
  ELSE IF a[i] # b[i] THEN a[i] < b[i]
  ELSE LessDigits(a, b, i + 1)

\* x + y.
DecAdd(x, y) ==
  LET e  == IF x.exp < y.exp THEN x.exp ELSE y.exp
      xa == x.dig \o Zeros(x.exp - e)
      ya == y.dig \o Zeros(y.exp - e)
      n  == IF Len(xa) > Len(ya) THEN Len(xa) ELSE Len(ya)
      a  == Zeros(n - Len(xa)) \o xa
      b  == Zeros(n - Len(ya)) \o ya
  IN  IF x.neg = y.neg THEN DecRound(x.neg, AddDigits(a, b, n, 0, <<>>), e, FALSE)
      ELSE IF LessDigits(a, b, 1) THEN DecRound(y.neg, SubDigits(b, a, n, 0, <<>>), e, FALSE)
      ELSE DecRound(x.neg, SubDigits(a, b, n, 0, <<>>), e, FALSE)

\* x - y.
DecSub(x, y) == DecAdd(x, DecNeg(y))


DecOfCents(n) == DecNorm(FALSE, IntDigits(n), -2)

(***************************************************************************)
(* Calendar and schedule                                                   *)
(***************************************************************************)
Weekday(d) == d % 7

NoneStr == <<"None">>

DefaultWorkDays == <<"0", ",", "1", ",", "2", ",", "3", ",", "4", ",", "5">>

DigitChars == <<"0", "1", "2", "3", "4", "5", "6", "7", "8", "9">>

IsDigit(c) == \E v \in 1..Len(DigitChars) : DigitChars[v] = c

DigitVal(c) == (CHOOSE v \in 1..Len(DigitChars) : DigitChars[v] = c) - 1

\* str.split(','): the pieces between commas, at least one.
RECURSIVE SplitComma(_, _, _)
SplitComma(s, i, cur) ==
  IF i > Len(s) THEN <<cur>>
  ELSE IF s[i] = "," THEN <<cur>> \o SplitComma(s, i + 1, <<>>)
  ELSE SplitComma(s, i + 1, Append(cur, s[i]))

RECURSIVE StripLeft(_)
StripLeft(p) == IF p # <<>> /\ Head(p) = " " THEN StripLeft(Tail(p)) ELSE p

RECURSIVE StripRight(_)
StripRight(p) ==
  IF p # <<>> /\ p[Len(p)] = " " THEN StripRight(SubSeq(p, 1, Len(p) - 1)) ELSE p

\* str.strip()
Strip(p) == StripRight(StripLeft(p))

IntBody(p) ==
  LET t == Strip(p)
  IN  IF t # <<>> /\ Head(t) \in {"+", "-"} THEN Tail(t) ELSE t

\* int(d) succeeds: blanks, an optional sign, then digits only.
IntParses(p) ==
  IntBody(p) # <<>> /\ \A i \in 1..Len(IntBody(p)) : IsDigit(IntBody(p)[i])

RECURSIVE DigitsValue(_, _)
DigitsValue(b, n) ==
  IF n = 0 THEN 0 ELSE DigitsValue(b, n - 1) * 10 + DigitVal(b[n])

\* int(d)
IntOf(p) ==
  LET v == DigitsValue(IntBody(p), Len(IntBody(p)))
  IN  IF Head(Strip(p)) = "-" THEN 0 - v ELSE v

\* A parse that drops the pieces int() rejects instead of falling back.
ScheduledDaysSkipBad(work_days) ==
  LET work_days_str ==
        IF work_days = NoneStr \/ work_days = <<>> THEN DefaultWorkDays ELSE work_days
      parts == SplitComma(work_days_str, 1, <<>>)
      kept  == {i \in 1..Len(parts) : Strip(parts[i]) # <<>> /\ IntParses(parts[i])}
  IN  {IntOf(parts[i]) : i \in kept}

\* scheduled_days of an employee row.
ScheduledDays(work_days) ==
  LET work_days_str ==
        IF work_days = NoneStr \/ work_days = <<>> THEN DefaultWorkDays ELSE work_days
      parts == SplitComma(work_days_str, 1, <<>>)
      kept  == {i \in 1..Len(parts) : Strip(parts[i]) # <<>>}
  IN  IF \A i \in kept : IntParses(parts[i])
      THEN {IntOf(parts[i]) : i \in kept}
      ELSE {0, 1, 2, 3, 4, 5}

\* A loop that walks the range in either direction.
ActualWorkDaysCountEitherWay(curr, last, scheduled_days) ==
  Cardinality({d \in (IF curr <= last THEN curr ELSE last)
                     ..(IF curr <= last THEN last ELSE curr) :
                 Weekday(d) \in scheduled_days})

\* The loop "curr = first; while curr <= last: ...; curr += timedelta(days=1)".
RECURSIVE ActualWorkDaysCount(_, _, _)
ActualWorkDaysCount(curr, last, scheduled_days) ==
  IF curr > last THEN 0
  ELSE (IF Weekday(curr) \in scheduled_days THEN 1 ELSE 0)
       + ActualWorkDaysCount(curr + 1, last, scheduled_days)


(***************************************************************************)
(* The store and one request                                               *)
(***************************************************************************)
VARIABLES
  tbl_employees,       \* employees rows, in the order a scan returns them
  tbl_attendance,      \* attendance rows
  tbl_deposits,        \* deposits (advances) rows
  tbl_leaves,          \* leaves rows
  tbl_loan_schedules,  \* loan_schedules rows joined with their loan's employee_id
  tbl_sales,           \* sales_summary rows
  today,               \* the wall clock's date
  pc,                  \* where the request is in get_payroll_stats
  start_date, end_date, branch_id,   \* its arguments
  employees, abs_map, adv_map, leave_map, sales_map, loan_due_map,  \* its locals
  results,             \* the list it returns
  queries,             \* the statements the call has passed to db.execute
  error,               \* the statement whose db.execute raised, "" while none has
  prev,                \* history: the last call that returned, and the store it read
  selected_employee,   \* employee_report_index: the employee of the page, <<>> if none
  period_label, period_start, period_end   \* and the period of its summary

tables == <<tbl_employees, tbl_attendance, tbl_deposits, tbl_leaves,
            tbl_loan_schedules, tbl_sales>>
args   == <<start_date, end_date, branch_id>>
locals == <<employees, abs_map, adv_map, leave_map, sales_map, loan_due_map>>
call   == <<queries, error>>
period == <<selected_employee, period_label, period_start, period_end>>
beyond == <<prev, period>>
vars   == <<tables, today, pc, args, locals, results, call, beyond>>

\* Bound on the number of attendance, deposit, leave, loan schedule and sales
\* rows.
MaxRows == 2

\* Employee rows.  Money columns are NUMERIC with two decimals, held in cents;
\* salary is <<>> when NULL.
Emp(id, first_name, br, salary, freq, work_days) ==
  [id |-> id, first_name |-> first_name, branch_id |-> br, active |-> TRUE,
   salary |-> salary, salary_frequency |-> freq, work_days |-> work_days]

\* A row imported with active false.
Inactive(e) == [e EXCEPT !.active = FALSE]

Rosters ==
  { << Emp(1, "Zed", 2, <<130000>>, "monthly", NoneStr),
       Emp(2, "Ali", 1, <<100000>>, "weekly", DefaultWorkDays) >>,
    << Emp(1, "Ali", 1, <<40000>>, "weekly", <<"0", ",", "1", ",", "2">>),
       Emp(2, "Ali", 1, <<130000>>, "monthly", DefaultWorkDays) >>,
    << Emp(1, "Ali", 1, <<>>, "monthly", <<"6">>),
       Emp(2, "Bob", 1, <<100000>>, "weekly", <<"0", ",", "1", ",", "2", ",", "3", ",", "4", ",", "5", ",", "6">>) >>,
    << Inactive(Emp(1, "Ali", 1, <<130000>>, "monthly", DefaultWorkDays)),
       Emp(2, "Bob", 2, <<100000>>, "weekly", DefaultWorkDays) >> }

EmployeeIds == {1, 2}

\* Dates of the rows the forms create, and the periods requested.
RowDates == {1, 6}
LeaveSpans == {<<0, 4>>, <<5, 8>>}
DepositAmounts == {200000}
Periods == {<<0, 6>>, <<0, 27>>, <<0, 29>>, <<6, 6>>, <<3, 1>>, <<3, 9>>}
Todays == {10}

TotalRows ==
  Cardinality(tbl_attendance) + Cardinality(tbl_deposits)
  + Cardinality(tbl_leaves) + Cardinality(tbl_loan_schedules)
  + Cardinality(tbl_sales)

NoMap == <<>>

\* No call has returned yet; no date.
NoCall == [returned |-> FALSE]
NoDate == [year |-> 0, month |-> 0, day |-> 0]

InitOver(rosters, days) ==
  /\ tbl_employees \in rosters
  /\ tbl_attendance = {}
  /\ tbl_deposits = {}
  /\ tbl_leaves = {}
  /\ tbl_loan_schedules = {}
  /\ tbl_sales = {}
  /\ today \in days
  /\ pc = "idle"
  /\ start_date = 0 /\ end_date = 0 /\ branch_id = 0
  /\ employees = <<>>
  /\ abs_map = NoMap /\ adv_map = NoMap /\ leave_map = NoMap
  /\ sales_map = NoMap /\ loan_due_map = NoMap
  /\ results = <<>>
  /\ queries = <<>> /\ error = ""
  /\ prev = NoCall
  /\ selected_employee = <<>>
  /\ period_label = "" /\ period_start = NoDate /\ period_end = NoDate

InitWith(rosters) == InitOver(rosters, Todays)

Init == InitWith(Rosters)

HasEmployee(eid) == \E i \in 1..Len(tbl_employees) : tbl_employees[i].id = eid

\* POST /attendance/create
attendance_create(employee_id, date) ==
  /\ pc = "idle" /\ TotalRows < MaxRows
  /\ HasEmployee(employee_id)
  /\ tbl_attendance' = tbl_attendance \cup
       {[employee_id |-> employee_id, date |-> date, atype |-> "absent"]}
  /\ UNCHANGED <<tbl_employees, tbl_deposits, tbl_leaves, tbl_loan_schedules,
                 tbl_sales, today, pc, args, locals, results, call, beyond>>

\* POST /deposits/create
deposits_create(employee_id, amount, date) ==
  /\ pc = "idle" /\ TotalRows < MaxRows
  /\ HasEmployee(employee_id) /\ amount > 0
  /\ tbl_deposits' = tbl_deposits \cup
       {[employee_id |-> employee_id, date |-> date, amount |-> amount]}
  /\ UNCHANGED <<tbl_employees, tbl_attendance, tbl_leaves, tbl_loan_schedules,
                 tbl_sales, today, pc, args, locals, results, call, beyond>>

\* POST /leaves/create
leaves_create(employee_id, first, last, ltype) ==
  /\ pc = "idle" /\ TotalRows < MaxRows
  /\ first <= last
  /\ HasEmployee(employee_id)
  /\ tbl_leaves' = tbl_leaves \cup
       {[employee_id |-> employee_id, start_date |-> first, end_date |-> last,
         ltype |-> ltype]}
  /\ UNCHANGED <<tbl_employees, tbl_attendance, tbl_deposits, tbl_loan_schedules,
                 tbl_sales, today, pc, args, locals, results, call, beyond>>


\* import_data: db.add(LoanSchedule(**item)) for a loan of employee_id.
import_loan_schedule(employee_id, loan_id, due_date, due_total, paid_total, status) ==
  /\ pc = "idle" /\ TotalRows < MaxRows
  /\ HasEmployee(employee_id)
  /\ tbl_loan_schedules' = tbl_loan_schedules \cup
       {[employee_id |-> employee_id, loan_id |-> loan_id, due_date |-> due_date,
         due_total |-> due_total, paid_total |-> paid_total, status |-> status]}
  /\ UNCHANGED <<tbl_employees, tbl_attendance, tbl_deposits, tbl_leaves,
                 tbl_sales, today, pc, args, locals, results, call, beyond>>

\* import_data: db.add(Attendance(**item)), atype any member of AttendanceType
\* ("present" stands for the members other than absent).
import_attendance(employee_id, date, atype) ==
  /\ pc = "idle" /\ TotalRows < MaxRows
  /\ HasEmployee(employee_id)
  /\ tbl_attendance' = tbl_attendance \cup
       {[employee_id |-> employee_id, date |-> date, atype |-> atype]}
  /\ UNCHANGED <<tbl_employees, tbl_deposits, tbl_leaves, tbl_loan_schedules,
                 tbl_sales, today, pc, args, locals, results, call, beyond>>

\* The employees whose first_name is the agent's user name.
EmployeesNamed(name) ==
  {tbl_employees[i].id : i \in {j \in 1..Len(tbl_employees) :
                                  tbl_employees[j].first_name = name}}

\* POST /api/sales/sync, one item: the row of (date, local_user_name,
\* store_name) is updated or created, linked to the employee of that first
\* name (employee_id 0 is NULL).  scalar_one_or_none raises when several
\* employees have the name, and nothing is written.
sync_sales_summary(local_user_name, store_name, date, quantity_sold, total_revenue) ==
  /\ pc = "idle" /\ TotalRows < MaxRows
  /\ Cardinality(EmployeesNamed(local_user_name)) <= 1
  /\ LET emp_id == IF EmployeesNamed(local_user_name) = {} THEN 0
                   ELSE CHOOSE e \in EmployeesNamed(local_user_name) : TRUE
         existing == {r \in tbl_sales :
                        /\ r.date = date
                        /\ r.local_user_name = local_user_name
                        /\ r.store_name = store_name}
     IN  tbl_sales' = (tbl_sales \ existing) \cup
           {[date |-> date, local_user_name |-> local_user_name,
             store_name |-> store_name, quantity_sold |-> quantity_sold,
             total_revenue |-> total_revenue, employee_id |-> emp_id]}
  /\ UNCHANGED <<tbl_employees, tbl_attendance, tbl_deposits, tbl_leaves,
                 tbl_loan_schedules, today, pc, args, locals, results, call, beyond>>

\* POST /employees/{employee_id}/update: the form's salary and
\* salary_frequency replace the row's (the other fields are resubmitted as
\* they were); an unknown id redirects and writes nothing.
employees_update(employee_id, salary, salary_frequency) ==
  /\ pc = "idle"
  /\ \E i \in 1..Len(tbl_employees) :
       /\ tbl_employees[i].id = employee_id
       /\ tbl_employees' =
            [tbl_employees EXCEPT ![i].salary = salary,
                                  ![i].salary_frequency = salary_frequency]
  /\ UNCHANGED <<tbl_attendance, tbl_deposits, tbl_leaves, tbl_loan_schedules,
                 tbl_sales, today, pc, args, locals, results, call, beyond>>

(***************************************************************************)
(* PayrollService.get_payroll_stats                                        *)
(***************************************************************************)
\* x BETWEEN lo AND hi
Between(x, lo, hi) == lo <= x /\ x <= hi

\* The rows of S as a list in ascending Key order (ORDER BY).
RECURSIVE OrderBy(_, _)
OrderBy(S, key) ==
  IF S = {} THEN <<>>
  ELSE LET m == CHOOSE x \in S : \A y \in S : x[key] <= y[key]
       IN  <<m>> \o OrderBy(S \ {m}, key)

\* The employee query without the filter on active.
SelectEmployeesInactiveToo(br) ==
  SelectSeq(tbl_employees, LAMBDA e : br = 0 \/ e.branch_id = br)

\* 1. active employees, of the branch when branch_id is truthy
SelectEmployees(br) ==
  SelectSeq(tbl_employees, LAMBDA e : e.active /\ (br = 0 \/ e.branch_id = br))

EmployeeIdsOf(emps) == {emps[i].id : i \in 1..Len(emps)}

\* The absence query without the filter on atype.
SelectAbsencesAnyKind(eids, first, last) ==
  [eid \in eids |->
     OrderBy({r \in tbl_attendance :
                r.employee_id = eid /\ Between(r.date, first, last)}, "date")]

\* A. absences
SelectAbsences(eids, first, last) ==
  [eid \in eids |->
     OrderBy({r \in tbl_attendance :
                /\ r.employee_id = eid
                /\ r.atype = "absent"
                /\ Between(r.date, first, last)}, "date")]

\* B. advances
\* adv_map built with dict.fromkeys(employee_ids, []): one list shared by
\* every employee.
SelectAdvancesShared(eids, first, last) ==
  [eid \in eids |->
     OrderBy({r \in tbl_deposits :
                r.employee_id \in eids /\ Between(r.date, first, last)}, "date")]

SelectAdvances(eids, first, last) ==
  [eid \in eids |->
     OrderBy({r \in tbl_deposits :
                r.employee_id = eid /\ Between(r.date, first, last)}, "date")]

\* The leave query selecting every leave that overlaps the window.
SelectLeavesOverlapping(eids, first, last) ==
  [eid \in eids |->
     OrderBy({r \in tbl_leaves :
                r.employee_id = eid /\ r.start_date <= last /\ first <= r.end_date},
             "start_date")]

\* C. leaves
SelectLeaves(eids, first, last) ==
  [eid \in eids |->
     OrderBy({r \in tbl_leaves :
                r.employee_id = eid /\ Between(r.start_date, first, last)}, "start_date")]

RECURSIVE SumOver(_, _)
SumOver(S, f) ==
  IF S = {} THEN 0
  ELSE LET x == CHOOSE y \in S : TRUE IN f[x] + SumOver(S \ {x}, f)

\* D. sales: one row per employee that has sales in the window
SelectSales(eids, first, last) ==
  LET rows(eid) == {r \in tbl_sales :
                      r.employee_id = eid /\ Between(r.date, first, last)}
  IN  [eid \in {e \in eids : rows(e) # {}} |->
         [qty |-> SumOver(rows(eid), [r \in rows(eid) |-> r.quantity_sold]),
          rev |-> SumOver(rows(eid), [r \in rows(eid) |-> r.total_revenue])]]

\* E. loan schedules due: SUM(due_total - paid_total) per (employee, loan),
\* added up per employee in Decimal.
RECURSIVE SumDecimals(_, _)
SumDecimals(S, f) ==
  IF S = {} THEN DecZero
  ELSE LET x == CHOOSE y \in S : TRUE IN DecAdd(SumDecimals(S \ {x}, f), f[x])

\* The loan query without the filter on status.
SelectLoansDueAnyStatus(eids, first, last) ==
  LET rows(eid) == {r \in tbl_loan_schedules :
                      r.employee_id = eid /\ Between(r.due_date, first, last)}
      loans(eid) == {r.loan_id : r \in rows(eid)}
      due(eid, l) == SumOver({r \in rows(eid) : r.loan_id = l},
                             [r \in rows(eid) |-> r.due_total - r.paid_total])
      dec(n) == IF n < 0 THEN DecNeg(DecOfCents(0 - n)) ELSE DecOfCents(n)
  IN  [eid \in {e \in eids : rows(e) # {}} |->
         SumDecimals(loans(eid), [l \in loans(eid) |-> dec(due(eid, l))])]

SelectLoansDue(eids, first, last) ==
  LET rows(eid) == {r \in tbl_loan_schedules :
                      /\ r.employee_id = eid
                      /\ Between(r.due_date, first, last)
                      /\ r.status \in {"pending", "partial"}}
      loans(eid) == {r.loan_id : r \in rows(eid)}
      due(eid, l) == SumOver({r \in rows(eid) : r.loan_id = l},
                             [r \in rows(eid) |-> r.due_total - r.paid_total])
      dec(n) == IF n < 0 THEN DecNeg(DecOfCents(0 - n)) ELSE DecOfCents(n)
  IN  [eid \in {e \in eids : rows(e) # {}} |->
         SumDecimals(loans(eid), [l \in loans(eid) |-> dec(due(eid, l))])]


\* salary = emp.salary or Decimal(0)
Salary(emp) == IF emp.salary = <<>> THEN DecZero ELSE DecOfCents(emp.salary[1])

\* Weekly employees forced to the Monday-to-Sunday week of today.
PeriodOfCurrentWeek(emp) ==
  IF emp.salary_frequency = "weekly"
  THEN <<today - Weekday(today), today - Weekday(today) + 6>>
  ELSE <<start_date, end_date>>

\* The period the work days of an employee are counted over.
PeriodOf(emp) == <<start_date, end_date>>

\* A leave loop without the test on ltype.
RECURSIVE UnpaidLeaveDaysAnyType(_, _, _)
UnpaidLeaveDaysAnyType(emp_leaves, n, scheduled_days) ==
  IF n = 0 THEN 0
  ELSE UnpaidLeaveDaysAnyType(emp_leaves, n - 1, scheduled_days)
       + ActualWorkDaysCount(emp_leaves[n].start_date, emp_leaves[n].end_date,
                             scheduled_days)

\* unpaid_leave_days: every scheduled day of each unpaid or sick_unpaid leave
RECURSIVE UnpaidLeaveDays(_, _, _)
UnpaidLeaveDays(emp_leaves, n, scheduled_days) ==
  IF n = 0 THEN 0
  ELSE UnpaidLeaveDays(emp_leaves, n - 1, scheduled_days)
       + (IF emp_leaves[n].ltype \in {"unpaid", "sick_unpaid"}
          THEN ActualWorkDaysCount(emp_leaves[n].start_date, emp_leaves[n].end_date,
                                   scheduled_days)
          ELSE 0)

\* A monthly rate over a fixed month of 30 days.
DailyRateThirtyDays(salary_frequency, salary, actual_work_days_count, scheduled_days) ==
  IF salary_frequency = "monthly"
  THEN IF actual_work_days_count > 0 /\ DecIsPos(salary)
       THEN DecDivInt(salary, 30)
       ELSE DecZero
  ELSE LET days_per_week == IF scheduled_days # {} THEN Cardinality(scheduled_days) ELSE 6
       IN  DecDivInt(DecDivInt(salary, 4), days_per_week)

\* A weekly rate without the fallback to 6 days: an empty schedule gives no
\* rate.
DailyRateNoFallback(salary_frequency, salary, actual_work_days_count, scheduled_days) ==
  IF salary_frequency = "monthly"
  THEN IF actual_work_days_count > 0 /\ DecIsPos(salary)
       THEN DecDivInt(salary, actual_work_days_count)
       ELSE DecZero
  ELSE LET weekly_base   == DecDivInt(salary, 4)
           days_per_week == Cardinality(scheduled_days)
       IN  IF days_per_week > 0 THEN DecDivInt(weekly_base, days_per_week) ELSE DecZero

\* daily_rate
DailyRate(salary_frequency, salary, actual_work_days_count, scheduled_days) ==
  IF salary_frequency = "monthly"
  THEN IF actual_work_days_count > 0 /\ DecIsPos(salary)
       THEN DecDivInt(salary, actual_work_days_count)
       ELSE DecZero
  ELSE LET weekly_base   == DecDivInt(salary, 4)
           days_per_week == IF scheduled_days # {} THEN Cardinality(scheduled_days) ELSE 6
       IN  IF days_per_week > 0 THEN DecDivInt(weekly_base, days_per_week) ELSE DecZero

\* gross_pay
GrossPay(salary_frequency, salary, daily_rate, actual_work_days_count) ==
  IF salary_frequency = "monthly" THEN salary
  ELSE DecMulInt(daily_rate, actual_work_days_count)

\* A total that keeps the last advance instead of adding them up.
TotalAdvancesLast(emp_advances, n) ==
  IF n = 0 THEN DecZero ELSE DecOfCents(emp_advances[n].amount)

\* total_advances = sum((a.amount for a in emp_advances), Decimal(0))
RECURSIVE TotalAdvances(_, _)
TotalAdvances(emp_advances, n) ==
  IF n = 0 THEN DecZero
  ELSE DecAdd(TotalAdvances(emp_advances, n - 1), DecOfCents(emp_advances[n].amount))

\* A net floored at zero.
NetEstimatedFloored(gross_pay, deduction, total_advances, loans_due) ==
  LET net == DecSub(DecSub(DecSub(gross_pay, deduction), total_advances), loans_due)
  IN  IF net.neg THEN DecZero ELSE net

\* net_estimated
NetEstimated(gross_pay, deduction, total_advances, loans_due) ==
  DecSub(DecSub(DecSub(gross_pay, deduction), total_advances), loans_due)

\* One iteration of the loop "for emp in employees": the dict appended to
\* results, with the iteration's scheduled_days, actual_work_days_count and
\* daily_rate beside it.
PayrollEntry(emp) ==
  LET salary        == Salary(emp)
      emp_absences  == abs_map[emp.id]
      abs_count     == Len(emp_absences)
      scheduled_days == ScheduledDays(emp.work_days)
      actual_work_days_count ==
        ActualWorkDaysCount(PeriodOf(emp)[1], PeriodOf(emp)[2], scheduled_days)
      emp_leaves    == leave_map[emp.id]
      unpaid_leave_days == UnpaidLeaveDays(emp_leaves, Len(emp_leaves), scheduled_days)
      total_deduction_days == abs_count + unpaid_leave_days
      daily_rate    == DailyRate(emp.salary_frequency, salary,
                                 actual_work_days_count, scheduled_days)
      deduction     == DecMulInt(daily_rate, total_deduction_days)
      emp_advances  == adv_map[emp.id]
      total_advances == TotalAdvances(emp_advances, Len(emp_advances))
      loans_due     == IF emp.id \in DOMAIN loan_due_map
                       THEN loan_due_map[emp.id] ELSE DecZero
      sales_data    == IF emp.id \in DOMAIN sales_map
                       THEN sales_map[emp.id] ELSE [qty |-> 0, rev |-> 0]
      gross_pay     == GrossPay(emp.salary_frequency, salary, daily_rate,
                                actual_work_days_count)
  IN  [employee |-> emp,
       scheduled_days |-> scheduled_days,
       actual_work_days_count |-> actual_work_days_count,
       daily_rate |-> daily_rate,
       stats |->
         [salary |-> gross_pay,
          base_salary |-> salary,
          absences_list |-> emp_absences,
          advances_list |-> emp_advances,
          leaves_list |-> emp_leaves,
          absences_count |-> abs_count,
          unpaid_leave_days |-> unpaid_leave_days,
          total_deduction_days |-> total_deduction_days,
          deduction_amount |-> deduction,
          advances_total |-> total_advances,
          loans_due_total |-> loans_due,
          sales_qty |-> sales_data.qty,
          sales_rev |-> sales_data.rev,
          net_estimated |-> NetEstimated(gross_pay, deduction, total_advances, loans_due)]]

\* GET /reports/export/payroll calls get_payroll_stats(db, start_date, end_date, branch_id)
export_payroll(first, last, br) ==
  /\ pc = "idle"
  /\ pc' = "employees"
  /\ start_date' = first /\ end_date' = last /\ branch_id' = br
  /\ UNCHANGED <<tables, today, locals, results, call, beyond>>

\* The employee query without the early return.
exec_employees_no_return ==
  /\ pc = "employees"
  /\ queries' = Append(queries, "employees") /\ UNCHANGED <<error, beyond>>
  /\ employees' = SelectEmployees(branch_id)
  /\ pc' = "absences" /\ UNCHANGED results
  /\ UNCHANGED <<tables, today, args, abs_map, adv_map, leave_map, sales_map,
                 loan_due_map>>

\* res_emp = await db.execute(stmt_emp); return [] when there is no employee
exec_employees ==
  /\ pc = "employees"
  /\ queries' = Append(queries, "employees") /\ UNCHANGED <<error, beyond>>
  /\ employees' = SelectEmployees(branch_id)
  /\ IF employees' = <<>>
     THEN pc' = "returned" /\ results' = <<>>
     ELSE pc' = "absences" /\ UNCHANGED results
  /\ UNCHANGED <<tables, today, args, abs_map, adv_map, leave_map, sales_map,
                 loan_due_map>>

\* res_abs = await db.execute(stmt_abs)
exec_absences ==
  /\ pc = "absences"
  /\ queries' = Append(queries, "absences") /\ UNCHANGED <<error, beyond>>
  /\ abs_map' = SelectAbsences(EmployeeIdsOf(employees), start_date, end_date)
  /\ pc' = "advances"
  /\ UNCHANGED <<tables, today, args, employees, adv_map, leave_map, sales_map,
                 loan_due_map, results>>

\* res_adv = await db.execute(stmt_adv)
exec_advances ==
  /\ pc = "advances"
  /\ queries' = Append(queries, "advances") /\ UNCHANGED <<error, beyond>>
  /\ adv_map' = SelectAdvances(EmployeeIdsOf(employees), start_date, end_date)
  /\ pc' = "leaves"
  /\ UNCHANGED <<tables, today, args, employees, abs_map, leave_map, sales_map,
                 loan_due_map, results>>

\* The loan query issued after the leave query, ahead of the sales query.
exec_leaves_then_loans ==
  /\ pc = "leaves"
  /\ queries' = Append(queries, "leaves") /\ UNCHANGED <<error, beyond>>
  /\ leave_map' = SelectLeaves(EmployeeIdsOf(employees), start_date, end_date)
  /\ pc' = "loans"
  /\ UNCHANGED <<tables, today, args, employees, abs_map, adv_map, sales_map,
                 loan_due_map, results>>

\* res_leaves = await db.execute(stmt_leaves)
exec_leaves ==
  /\ pc = "leaves"
  /\ queries' = Append(queries, "leaves") /\ UNCHANGED <<error, beyond>>
  /\ leave_map' = SelectLeaves(EmployeeIdsOf(employees), start_date, end_date)
  /\ pc' = "sales"
  /\ UNCHANGED <<tables, today, args, employees, abs_map, adv_map, sales_map,
                 loan_due_map, results>>

\* res_sales = await db.execute(stmt_sales)
exec_sales ==
  /\ pc = "sales"
  /\ queries' = Append(queries, "sales") /\ UNCHANGED <<error, beyond>>
  /\ sales_map' = SelectSales(EmployeeIdsOf(employees), start_date, end_date)
  /\ pc' = "loans"
  /\ UNCHANGED <<tables, today, args, employees, abs_map, adv_map, leave_map,
                 loan_due_map, results>>

\* res_loans = await db.execute(stmt_loans)
exec_loans ==
  /\ pc = "loans"
  /\ queries' = Append(queries, "loans") /\ UNCHANGED <<error, beyond>>
  /\ loan_due_map' = SelectLoansDue(EmployeeIdsOf(employees), start_date, end_date)
  /\ pc' = "build"
  /\ UNCHANGED <<tables, today, args, employees, abs_map, adv_map, leave_map,
                 sales_map, results>>

\* A result list of the employees that have a row in some map only.
build_results_with_records ==
  /\ pc = "build"
  /\ results' =
       LET kept == SelectSeq(employees, LAMBDA e :
                     \/ abs_map[e.id] # <<>> \/ adv_map[e.id] # <<>>
                     \/ leave_map[e.id] # <<>>
                     \/ e.id \in DOMAIN sales_map \/ e.id \in DOMAIN loan_due_map)
       IN  [i \in 1..Len(kept) |-> PayrollEntry(kept[i])]
  /\ pc' = "returned"
  /\ UNCHANGED <<tables, today, args, locals, call, beyond>>

\* The advances shown in the report marked as settled: their rows deleted.
build_results_settling_advances ==
  /\ pc = "build"
  /\ results' = [i \in 1..Len(employees) |-> PayrollEntry(employees[i])]
  /\ tbl_deposits' =
       {d \in tbl_deposits :
          ~ \E i \in 1..Len(employees) :
              \E k \in 1..Len(adv_map[employees[i].id]) :
                adv_map[employees[i].id][k] = d}
  /\ pc' = "returned"
  /\ UNCHANGED <<tbl_employees, tbl_attendance, tbl_leaves, tbl_loan_schedules,
                 tbl_sales, today, args, locals, call, beyond>>

\* A commission on the sales revenue added to the net pay.
build_results_with_commission ==
  /\ pc = "build"
  /\ results' =
       [i \in 1..Len(employees) |->
          LET entry == PayrollEntry(employees[i])
          IN  [entry EXCEPT !.stats.net_estimated =
                 DecAdd(@, DecOfCents(entry.stats.sales_rev))]]
  /\ pc' = "returned"
  /\ UNCHANGED <<tables, today, args, locals, call, beyond>>

\* results kept in a list that outlives the call (a mutable default
\* argument): each call appends to what the last one returned.
build_results_accumulating ==
  /\ pc = "build"
  /\ results' =
       (IF prev.returned THEN prev.results ELSE <<>>)
       \o [i \in 1..Len(employees) |-> PayrollEntry(employees[i])]
  /\ pc' = "returned"
  /\ UNCHANGED <<tables, today, args, locals, call, beyond>>

\* 3. Build Result List, and return it
build_results ==
  /\ pc = "build"
  /\ results' = [i \in 1..Len(employees) |-> PayrollEntry(employees[i])]
  /\ pc' = "returned"
  /\ UNCHANGED <<tables, today, args, locals, call, beyond>>

\* The caller has written its report; the request ends.
request_done ==
  /\ pc = "returned"
  /\ pc' = "idle"
  /\ employees' = <<>>
  /\ abs_map' = NoMap /\ adv_map' = NoMap /\ leave_map' = NoMap
  /\ sales_map' = NoMap /\ loan_due_map' = NoMap
  /\ results' = <<>>
  /\ queries' = <<>> /\ error' = ""
  /\ UNCHANGED <<tables, today, args, beyond>>

\* The same end of the request, with the call written to the history: its
\* arguments, the date, the store it read and the list it returned.
request_done_recorded ==
  /\ pc = "returned"
  /\ pc' = "idle"
  /\ employees' = <<>>
  /\ abs_map' = NoMap /\ adv_map' = NoMap /\ leave_map' = NoMap
  /\ sales_map' = NoMap /\ loan_due_map' = NoMap
  /\ results' = <<>>
  /\ queries' = <<>> /\ error' = ""
  /\ prev' = [returned |-> TRUE, start_date |-> start_date,
              end_date |-> end_date, branch_id |-> branch_id, today |-> today,
              tables |-> tables, results |-> results]
  /\ UNCHANGED <<tables, today, args, period>>

\* The statements of get_payroll_stats, named by the pc they are executed at.
QueryPcs == {"employees", "absences", "advances", "leaves", "sales", "loans"}

\* An except clause around db.execute that returns an empty list.
execute_raises_swallowed ==
  /\ pc \in QueryPcs
  /\ queries' = Append(queries, pc)
  /\ error' = pc
  /\ pc' = "returned"
  /\ results' = <<>>
  /\ UNCHANGED <<tables, today, args, locals, beyond>>

\* await db.execute(stmt) raises.  get_payroll_stats has no try around its
\* queries: the exception leaves the function, which returns nothing.
execute_raises ==
  /\ pc \in QueryPcs
  /\ queries' = Append(queries, pc)
  /\ error' = pc
  /\ pc' = "raised"
  /\ UNCHANGED <<tables, today, args, locals, results, beyond>>

\* The exception leaves export_payroll too; the request ends with an error.
request_failed ==
  /\ pc = "raised"
  /\ pc' = "idle"
  /\ employees' = <<>>
  /\ abs_map' = NoMap /\ adv_map' = NoMap /\ leave_map' = NoMap
  /\ sales_map' = NoMap /\ loan_due_map' = NoMap
  /\ queries' = <<>> /\ error' = ""
  /\ UNCHANGED <<tables, today, args, results, beyond>>

\* branch_id arguments: 0 for none, a branch with employees, a branch without.
BranchArgs == {0, 1, 3}
LoanRows == {<<1, 10000, 3000, "pending">>}

\* The calls made: every period without a branch, the first period per branch.
Requests == {r \in Periods \X BranchArgs : r[2] = 0 \/ r[1] = <<0, 6>>}

\* A call of get_payroll_stats whose queries all succeed.
RequestSteps ==
  \/ exec_employees
  \/ exec_absences
  \/ exec_advances
  \/ exec_leaves
  \/ exec_sales
  \/ exec_loans
  \/ build_results
  \/ request_done

\* A query of the call fails.
FaultSteps ==
  \/ execute_raises
  \/ request_failed

Next ==
  \/ \E e \in EmployeeIds, d \in RowDates : attendance_create(e, d)
  \/ \E e \in EmployeeIds, a \in DepositAmounts, d \in RowDates : deposits_create(e, a, d)
  \/ \E e \in EmployeeIds, sp \in LeaveSpans : leaves_create(e, sp[1], sp[2], "unpaid")
  \/ \E e \in EmployeeIds, l \in LoanRows :
        import_loan_schedule(e, e, l[1], l[2], l[3], l[4])
  \/ \E r \in Requests : export_payroll(r[1][1], r[1][2], r[2])
  \/ RequestSteps
  \/ FaultSteps

Spec == Init /\ [][Next]_vars

\* The store with every kind of attendance, leave and sales row.
RecordRosters == {r \in Rosters : \A i \in 1..Len(r) : r[i].active}
AttendanceItems == {<<1, "absent">>, <<6, "absent">>, <<1, "present">>}
LeaveForms == {<<0, 4, "unpaid">>, <<0, 4, "paid">>, <<5, 8, "sick">>,
               <<5, 8, "sick_unpaid">>}
DepositForms == {<<200000, 1>>, <<5000, 6>>}
SalesItems == {<<"Ali", "S1", 1, 3, 45000>>, <<"Bob", "S1", 1, 2, 30000>>}
RecordPeriods == {<<0, 6>>, <<3, 9>>, <<6, 6>>, <<3, 1>>}

NextRecords ==
  \/ \E e \in EmployeeIds, a \in AttendanceItems : import_attendance(e, a[1], a[2])
  \/ \E e \in EmployeeIds, f \in DepositForms : deposits_create(e, f[1], f[2])
  \/ \E e \in EmployeeIds, f \in LeaveForms : leaves_create(e, f[1], f[2], f[3])
  \/ \E e \in EmployeeIds, l \in LoanRows :
        import_loan_schedule(e, e, l[1], l[2], l[3], l[4])
  \/ \E i \in SalesItems : sync_sales_summary(i[1], i[2], i[3], i[4], i[5])
  \/ \E p \in RecordPeriods : export_payroll(p[1], p[2], 0)
  \/ RequestSteps

SpecRecords == InitWith(RecordRosters) /\ [][NextRecords]_vars

\* The store with schedule entries of two loans per employee, in every
\* status: <<loan, due_date, due_total, paid_total, status>>.
LoanItems == {<<1, 1, 10000, 3000, "pending">>, <<1, 6, 10000, 4000, "partial">>,
              <<2, 1, 5000, 15000, "partial">>, <<2, 6, 10000, 9000, "paid">>,
              <<2, 6, 2000, 2000, "pending">>}

NextLoans ==
  \/ \E e \in EmployeeIds, l \in LoanItems :
        import_loan_schedule(e, 10 * e + l[1], l[2], l[3], l[4], l[5])
  \/ \E p \in Periods : export_payroll(p[1], p[2], 0)
  \/ RequestSteps

SpecLoans == InitWith(RecordRosters) /\ [][NextLoans]_vars

\* salary_frequency NULL.
NoneFreq == "None"

\* Employees imported with other work_days strings and frequencies.
ScheduleRosters ==
  { << Emp(1, "Ali", 1, <<130000>>, "monthly", NoneStr),
       Emp(2, "Bob", 1, <<100000>>, "weekly", <<>>) >>,
    << Emp(1, "Ali", 1, <<130000>>, "monthly", <<"1", ",", "x">>),
       Emp(2, "Bob", 1, <<100000>>, "weekly", <<"1", ".", "5">>) >>,
    << Emp(1, "Ali", 1, <<100000>>, "weekly", <<",">>),
       Emp(2, "Bob", 1, <<130000>>, "monthly", <<" ">>) >>,
    << Emp(1, "Ali", 1, <<100000>>, "weekly", <<"7">>),
       Emp(2, "Bob", 1, <<130000>>, "monthly", <<" ", "0", ",", ",", "-", "1">>) >>,
    << Emp(1, "Ali", 1, <<130000>>, NoneFreq, DefaultWorkDays),
       Emp(2, "Bob", 1, <<130000>>, "monthly", DefaultWorkDays) >> }

NextSchedules ==
  \/ \E e \in EmployeeIds, d \in RowDates : attendance_create(e, d)
  \/ \E e \in EmployeeIds, sp \in LeaveSpans : leaves_create(e, sp[1], sp[2], "unpaid")
  \/ \E p \in Periods : export_payroll(p[1], p[2], 0)
  \/ RequestSteps

SpecSchedules == InitWith(ScheduleRosters) /\ [][NextSchedules]_vars

\* Calls that follow one another, each compared with the one before it: a
\* store of one row of each kind per employee, the sales row of Ali synced
\* twice with different figures, and the salary and frequency of employee 2
\* edited.
CallRosters ==
  { << Emp(1, "Ali", 1, <<100000>>, "weekly", DefaultWorkDays),
       Emp(2, "Bob", 1, <<130000>>, "monthly", DefaultWorkDays) >> }
CallSalesItems == {<<"Ali", "S1", 1, 3, 45000>>, <<"Ali", "S1", 1, 5, 75000>>,
                   <<"Bob", "S1", 1, 2, 30000>>}
CallUpdates == {<<2, <<50000>>, "weekly">>, <<2, <<130000>>, "monthly">>}
CallPeriods == {<<0, 6>>, <<3, 9>>}

NextCalls ==
  \/ \E e \in EmployeeIds : attendance_create(e, 1)
  \/ \E e \in EmployeeIds, a \in DepositAmounts : deposits_create(e, a, 1)
  \/ \E e \in EmployeeIds : leaves_create(e, 0, 4, "unpaid")
  \/ \E e \in EmployeeIds, l \in LoanRows :
        import_loan_schedule(e, e, l[1], l[2], l[3], l[4])
  \/ \E i \in CallSalesItems : sync_sales_summary(i[1], i[2], i[3], i[4], i[5])
  \/ \E u \in CallUpdates : employees_update(u[1], u[2], u[3])
  \/ \E p \in CallPeriods : export_payroll(p[1], p[2], 0)
  \/ exec_employees
  \/ exec_absences
  \/ exec_advances
  \/ exec_leaves
  \/ exec_sales
  \/ exec_loans
  \/ build_results
  \/ request_done_recorded

SpecCalls == InitWith(CallRosters) /\ [][NextCalls]_vars


(***************************************************************************)
(* employee_report_index: the period of the summary                        *)
(***************************************************************************)
\* datetime.date: the proleptic Gregorian calendar.  Day number 0 is
\* 2024-01-01.
EpochYear == 2024

IsLeap(year) == year % 4 = 0 /\ (year % 100 # 0 \/ year % 400 = 0)

DaysInYear(year) == IF IsLeap(year) THEN 366 ELSE 365

DaysInMonth(year, month) ==
  IF month = 2 THEN (IF IsLeap(year) THEN 29 ELSE 28)
  ELSE IF month \in {4, 6, 9, 11} THEN 30 ELSE 31

RECURSIVE DaysBeforeYear(_)
DaysBeforeYear(year) ==
  IF year = EpochYear THEN 0 ELSE DaysBeforeYear(year - 1) + DaysInYear(year - 1)

RECURSIVE DaysBeforeMonth(_, _)
DaysBeforeMonth(year, month) ==
  IF month = 1 THEN 0
  ELSE DaysBeforeMonth(year, month - 1) + DaysInMonth(year, month - 1)

\* date.toordinal(), counted from the epoch
ToOrdinal(d) == DaysBeforeYear(d.year) + DaysBeforeMonth(d.year, d.month) + d.day - 1

RECURSIVE MonthOfDay(_, _, _)
MonthOfDay(year, month, n) ==
  IF n < DaysInMonth(year, month)
  THEN [year |-> year, month |-> month, day |-> n + 1]
  ELSE MonthOfDay(year, month + 1, n - DaysInMonth(year, month))

RECURSIVE YearOfDay(_, _)
YearOfDay(year, n) ==
  IF n < DaysInYear(year) THEN MonthOfDay(year, 1, n)
  ELSE YearOfDay(year + 1, n - DaysInYear(year))

\* date.fromordinal()
FromOrdinal(n) == YearOfDay(EpochYear, n)

\* d + timedelta(days=n)
AddDays(d, n) == FromOrdinal(ToOrdinal(d) + n)

\* d.replace(day=n)
ReplaceDay(d, n) == [d EXCEPT !.day = n]

\* The end of the month taken three days after the 28th.
MonthEndThreeDays(d) ==
  LET next_month == AddDays(ReplaceDay(d, 28), 3)
  IN  AddDays(next_month, 0 - next_month.day)

\* next_month = today.date().replace(day=28) + timedelta(days=4)
\* period_end = next_month - timedelta(days=next_month.day)
MonthEnd(d) ==
  LET next_month == AddDays(ReplaceDay(d, 28), 4)
  IN  AddDays(next_month, 0 - next_month.day)

\* GET /employee-report?employee_id=...: the summary period of the selected
\* employee, the week of today for a weekly employee and the month of today
\* for any other.  The page reads the store and writes nothing.
employee_report_index(employee_id) ==
  /\ pc = "idle"
  /\ \E i \in 1..Len(tbl_employees) :
       /\ tbl_employees[i].id = employee_id
       /\ selected_employee' = <<tbl_employees[i]>>
       /\ LET freq == tbl_employees[i].salary_frequency
              date == FromOrdinal(today)
              start_of_week == AddDays(date, 0 - Weekday(today))
              end_of_week == AddDays(start_of_week, 6)
          IN  IF freq = "weekly"
              THEN /\ period_label' = "Résumé de la Semaine Actuelle"
                   /\ period_start' = start_of_week
                   /\ period_end' = end_of_week
              ELSE /\ period_label' = "Résumé du Mois Actuel"
                   /\ period_start' = ReplaceDay(date, 1)
                   /\ period_end' = MonthEnd(date)
  /\ UNCHANGED <<tables, today, pc, args, locals, results, call, prev>>

\* The page opened on any day of 2024 and 2025, for employees of weekly,
\* monthly and NULL frequency.
ReportRosters ==
  CallRosters \cup {r \in ScheduleRosters : r[1].salary_frequency = NoneFreq}
LastDay == 730
ReportDays == 0..LastDay

NextReport == \E e \in EmployeeIds : employee_report_index(e)

SpecReport == InitOver(ReportRosters, ReportDays) /\ [][NextReport]_vars


(***************************************************************************)
(* Properties                                                              *)
(***************************************************************************)
Returned == pc = "returned"

Entries == {results[i] : i \in 1..Len(results)}

\* The scheduled work days of [first, last]: the calendar days of the range
\* whose weekday is in the schedule.
ScheduledIn(first, last, scheduled_days) ==
  Cardinality({d \in first..last : Weekday(d) \in scheduled_days})

\* The salary column as a Decimal, 0 when NULL.
BaseSalary(emp) == IF emp.salary = <<>> THEN DecZero ELSE DecOfCents(emp.salary[1])

IsMonthly(r) == r.employee.salary_frequency = "monthly"
IsWeekly(r) == r.employee.salary_frequency = "weekly"

\* C1: for a monthly employee with salary S > 0 and N > 0 scheduled work days
\* in [start_date, end_date], deduction_amount = (S / N) * total_deduction_days
\* and the gross pay is S, whatever the period; with S = 1300, N = 26, two
\* absences, no advance and no loan: deduction 100, gross 1300, net 1200.
C1_MonthlyDeduction ==
  Returned =>
    \A r \in Entries :
      LET S == BaseSalary(r.employee)
          N == ScheduledIn(start_date, end_date, ScheduledDays(r.employee.work_days))
      IN  (IsMonthly(r) /\ DecIsPos(S) /\ N > 0) =>
            /\ r.stats.deduction_amount
                 = DecMulInt(DecDivInt(S, N), r.stats.total_deduction_days)
            /\ r.stats.salary = S
            /\ (/\ S = DecOfInt(1300) /\ N = 26
                /\ r.stats.total_deduction_days = 2
                /\ r.stats.advances_total = DecZero
                /\ r.stats.loans_due_total = DecZero)
               => /\ r.stats.deduction_amount = DecOfInt(100)
                  /\ r.stats.net_estimated = DecOfInt(1200)

C1_Witness ==
  /\ Returned
  /\ \E r \in Entries :
       /\ IsMonthly(r)
       /\ BaseSalary(r.employee) = DecOfInt(1300)
       /\ ScheduledIn(start_date, end_date, ScheduledDays(r.employee.work_days)) = 26
       /\ r.stats.absences_count = 2
       /\ r.stats.deduction_amount = DecOfInt(100)
       /\ r.stats.net_estimated = DecOfInt(1200)

\* C2: for a weekly employee with a schedule of k > 0 weekdays,
\* daily_rate = (S / 4) / k and gross pay = daily_rate * scheduled work days of
\* the period, so the gross of one Monday-to-Sunday week is S / 4 and the gross
\* of four such weeks is S.
C2_WeeklyGross ==
  Returned =>
    \A r \in Entries :
      LET S  == BaseSalary(r.employee)
          sd == ScheduledDays(r.employee.work_days)
          k  == Cardinality(sd)
      IN  (IsWeekly(r) /\ k > 0 /\ sd \subseteq 0..6) =>
            /\ r.daily_rate = DecDivInt(DecDivInt(S, 4), k)
            /\ r.stats.salary
                 = DecMulInt(r.daily_rate, ScheduledIn(start_date, end_date, sd))
            /\ (Weekday(start_date) = 0 /\ end_date = start_date + 6)
                 => r.stats.salary = DecDivInt(S, 4)
            /\ (Weekday(start_date) = 0 /\ end_date = start_date + 27)
                 => r.stats.salary = S

\* C3: net_estimated = gross pay - deduction_amount - advances_total -
\* loans_due_total, never clamped: when the three exceed the gross pay the net
\* is negative.
C3_NetNotClamped ==
  Returned =>
    \A r \in Entries :
      LET st == r.stats
          owed == DecAdd(DecAdd(st.deduction_amount, st.advances_total), st.loans_due_total)
      IN  /\ st.net_estimated
               = DecSub(DecSub(DecSub(st.salary, st.deduction_amount),
                               st.advances_total), st.loans_due_total)
          /\ DecIsPos(DecSub(owed, st.salary)) => st.net_estimated.neg

C3_Witness ==
  /\ Returned
  /\ \E r \in Entries :
       /\ r.stats.net_estimated.neg
       /\ DecIsPos(r.stats.salary)
       /\ DecIsPos(r.stats.advances_total)
       /\ DecIsPos(r.stats.deduction_amount) \/ DecIsPos(r.stats.loans_due_total)


\* C4: for an employee of either frequency with 0 scheduled work days in the
\* period, the daily rate used is 0 and deduction_amount is 0, whatever the
\* absences and unpaid leave days.
C4_NoWorkDaysNoDeduction ==
  Returned =>
    \A r \in Entries :
      ScheduledIn(start_date, end_date, ScheduledDays(r.employee.work_days)) = 0
        => r.daily_rate = DecZero /\ r.stats.deduction_amount = DecZero

\* C5: with start_date > end_date the call returns an entry for every
\* employee, each with 0 scheduled work days and 0 unpaid leave days.
C5_EmptyPeriod ==
  (Returned /\ start_date > end_date) =>
    /\ Len(results) = Len(SelectEmployees(branch_id))
    /\ \A r \in Entries :
         r.actual_work_days_count = 0 /\ r.stats.unpaid_leave_days = 0

C5_Witness ==
  /\ Returned /\ start_date > end_date
  /\ Len(results) = 2
  /\ \E l \in tbl_leaves : l.ltype = "unpaid"
  /\ \A r \in Entries : r.actual_work_days_count = 0 /\ r.stats.unpaid_leave_days = 0

Range(q) == {q[i] : i \in 1..Len(q)}

Max(a, b) == IF a > b THEN a ELSE b
Min(a, b) == IF a < b THEN a ELSE b

\* The leaves of an employee that deduct days.
UnpaidLeavesOf(eid) ==
  {l \in tbl_leaves : l.employee_id = eid /\ l.ltype \in {"unpaid", "sick_unpaid"}}

RECURSIVE SumNat(_, _)
SumNat(S, f) ==
  IF S = {} THEN 0 ELSE LET x == CHOOSE y \in S : TRUE IN f[x] + SumNat(S \ {x}, f)

\* C6: unpaid_leave_days is the sum, over the unpaid and sick_unpaid leaves
\* of the employee's leaves_list, of the scheduled days inside the clamped span
\* [max(leave.start_date, start_date), min(leave.end_date, end_date)]: no day
\* of a leave after end_date or before start_date is counted.
C6_LeaveClamped ==
  Returned =>
    \A r \in Entries :
      LET sd == ScheduledDays(r.employee.work_days)
          ls == {l \in Range(r.stats.leaves_list) : l.ltype \in {"unpaid", "sick_unpaid"}}
      IN  r.stats.unpaid_leave_days
            = SumNat(ls, [l \in ls |->
                ScheduledIn(Max(l.start_date, start_date),
                            Min(l.end_date, end_date), sd)])

\* C7: an unpaid leave that starts before the period and ends inside it
\* contributes the scheduled work days of its in-period part.
C7_LeaveStartedBefore ==
  Returned =>
    \A r \in Entries :
      \A l \in UnpaidLeavesOf(r.employee.id) :
        (/\ UnpaidLeavesOf(r.employee.id) = {l}
         /\ l.start_date < start_date
         /\ start_date <= l.end_date /\ l.end_date <= end_date)
        => r.stats.unpaid_leave_days
             = ScheduledIn(start_date, l.end_date, ScheduledDays(r.employee.work_days))

\* The Monday-to-Sunday week containing today.
WeekStart == today - Weekday(today)
WeekEnd == WeekStart + 6

\* The rows a window selects for an employee.
AbsentRows(eid, first, last) ==
  {a \in tbl_attendance :
     a.employee_id = eid /\ a.atype = "absent" /\ first <= a.date /\ a.date <= last}
AdvanceRows(eid, first, last) ==
  {a \in tbl_deposits : a.employee_id = eid /\ first <= a.date /\ a.date <= last}
LeaveRows(eid, first, last) ==
  {l \in tbl_leaves :
     l.employee_id = eid /\ first <= l.start_date /\ l.start_date <= last}

\* The entry r is the evaluation of its employee over [first, last].
EvaluatedOver(r, first, last) ==
  /\ r.actual_work_days_count
       = ScheduledIn(first, last, ScheduledDays(r.employee.work_days))
  /\ Range(r.stats.absences_list) = AbsentRows(r.employee.id, first, last)
  /\ Range(r.stats.advances_list) = AdvanceRows(r.employee.id, first, last)
  /\ Range(r.stats.leaves_list) = LeaveRows(r.employee.id, first, last)

FirstNames == <<"Ali", "Bob", "Zed">>
NameRank(n) == CHOOSE i \in 1..Len(FirstNames) : FirstNames[i] = n

KeyLeq(e1, e2) ==
  \/ e1.branch_id < e2.branch_id
  \/ e1.branch_id = e2.branch_id /\ NameRank(e1.first_name) <= NameRank(e2.first_name)

\* C9: the returned list is sorted by (branch_id, first_name), entries with
\* equal keys in the order of the employee query.
C9_Sorted ==
  Returned =>
    /\ \A i \in 1..(Len(results) - 1) :
         KeyLeq(results[i].employee, results[i + 1].employee)
    /\ \A i, j \in 1..Len(results) :
         (/\ i < j
          /\ KeyLeq(results[i].employee, results[j].employee)
          /\ KeyLeq(results[j].employee, results[i].employee))
         => \E a, b \in 1..Len(employees) :
              a < b /\ employees[a] = results[i].employee
                    /\ employees[b] = results[j].employee

\* C10: an absence record in the period counts as a deducted day exactly
\* when its date is a scheduled work day of the employee.
C10_AbsenceOnWorkDay ==
  Returned =>
    \A r \in Entries :
      r.stats.total_deduction_days - r.stats.unpaid_leave_days
        = Cardinality({a \in AbsentRows(r.employee.id, start_date, end_date) :
                         Weekday(a.date) \in ScheduledDays(r.employee.work_days)})

\* The number of times statement q is in the list qs.
Issued(qs, q) == Cardinality({i \in 1..Len(qs) : qs[i] = q})

\* C15: when a store query of get_payroll_stats fails, the call fails with
\* that error: no result list, complete or partial, is returned, no further
\* query is issued and the failed query is not issued again.
C15_QueryFailurePropagates ==
  error # "" =>
    /\ pc = "raised"
    /\ results = <<>>
    /\ queries[Len(queries)] = error
    /\ Issued(queries, error) = 1

C15_Witness ==
  /\ error = "loans"
  /\ pc = "raised"
  /\ \E e \in DOMAIN abs_map : abs_map[e] # <<>>

\* No active employee matches the branch argument of the call.
NoActiveEmployee ==
  ~ \E i \in 1..Len(tbl_employees) :
      /\ tbl_employees[i].active
      /\ (branch_id = 0 \/ tbl_employees[i].branch_id = branch_id)

\* C17: when the employee query finds no active employee for the branch
\* filter, the call returns the empty list at once: the employee query is the
\* only one it issues.
C17_NoEmployeesNoQueries ==
  (NoActiveEmployee /\ queries # <<>>) =>
    /\ queries = <<"employees">>
    /\ error = "" => (pc = "returned" /\ results = <<>>)

C17_Witness ==
  /\ pc = "returned"
  /\ NoActiveEmployee
  /\ branch_id = 1
  /\ \E i \in 1..Len(tbl_employees) :
       ~ tbl_employees[i].active /\ tbl_employees[i].branch_id = 1
  /\ \E a \in tbl_attendance : a.employee_id \in EmployeeIds

\* The qualifying loan schedule rows and the sales rows a window selects.
LoanDueRows(eid, first, last) ==
  {l \in tbl_loan_schedules :
     /\ l.employee_id = eid /\ first <= l.due_date /\ l.due_date <= last
     /\ l.status \in {"pending", "partial"}}
SalesRows(eid, first, last) ==
  {x \in tbl_sales : x.employee_id = eid /\ first <= x.date /\ x.date <= last}

\* C11: total_deduction_days = absences_count + unpaid_leave_days, and
\* absences_count is the number of the employee's attendance rows of kind
\* absent dated in [start_date, end_date], bounds included; rows of another
\* kind, of another employee or outside the range are not counted.
C11_AbsencesCount ==
  Returned =>
    \A r \in Entries :
      /\ r.stats.total_deduction_days
           = r.stats.absences_count + r.stats.unpaid_leave_days
      /\ r.stats.absences_count
           = Cardinality(AbsentRows(r.employee.id, start_date, end_date))

C11_Witness ==
  /\ Returned
  /\ \E r \in Entries :
       /\ r.stats.absences_count = 1
       /\ \E a \in tbl_attendance :
            /\ a.employee_id = r.employee.id /\ a.atype # "absent"
            /\ start_date <= a.date /\ a.date <= end_date
       /\ \E a \in tbl_attendance :
            /\ a.employee_id = r.employee.id /\ a.atype = "absent"
            /\ a.date = end_date

\* C12: only leaves of type unpaid or sick_unpaid add deduction days: the
\* leaves of type paid or sick of the leaves_list add nothing to
\* unpaid_leave_days, total_deduction_days, deduction_amount or net_estimated.
C12_OnlyUnpaidLeavesDeduct ==
  Returned =>
    \A r \in Entries :
      LET ls == {l \in Range(r.stats.leaves_list) :
                   l.ltype \in {"unpaid", "sick_unpaid"}}
          days == SumNat(ls, [l \in ls |->
                    ScheduledIn(l.start_date, l.end_date, r.scheduled_days)])
          deduction == DecMulInt(r.daily_rate, r.stats.absences_count + days)
      IN  /\ r.stats.unpaid_leave_days = days
          /\ r.stats.total_deduction_days = r.stats.absences_count + days
          /\ r.stats.deduction_amount = deduction
          /\ r.stats.net_estimated
               = DecSub(DecSub(DecSub(r.stats.salary, deduction),
                               r.stats.advances_total), r.stats.loans_due_total)

C12_Witness ==
  /\ Returned
  /\ \E r \in Entries :
       /\ DecIsPos(r.daily_rate)
       /\ r.stats.unpaid_leave_days = 0
       /\ r.stats.deduction_amount = DecZero
       /\ \E l \in Range(r.stats.leaves_list) :
            /\ l.ltype \in {"paid", "sick"}
            /\ ScheduledIn(l.start_date, l.end_date, r.scheduled_days) > 0

\* C13: advances_total is the exact sum of the amounts of the employee's
\* deposit rows dated in [start_date, end_date], each counted once, whatever
\* the weekday; it is 0 when there is none.
C13_AdvancesTotal ==
  Returned =>
    \A r \in Entries :
      LET rows == AdvanceRows(r.employee.id, start_date, end_date)
      IN  r.stats.advances_total
            = DecOfCents(SumNat(rows, [a \in rows |-> a.amount]))

C13_Witness ==
  /\ Returned
  /\ \E r \in Entries :
       /\ Len(r.stats.advances_list) = 2
       /\ r.stats.advances_total = DecOfInt(2050)
       /\ \E a \in Range(r.stats.advances_list) :
            Weekday(a.date) \notin r.scheduled_days

\* The employee has no row in any of the five sources for the period.
NoRecords(eid) ==
  /\ AbsentRows(eid, start_date, end_date) = {}
  /\ AdvanceRows(eid, start_date, end_date) = {}
  /\ LeaveRows(eid, start_date, end_date) = {}
  /\ LoanDueRows(eid, start_date, end_date) = {}
  /\ SalesRows(eid, start_date, end_date) = {}

\* C16: every active employee of the call gets an entry, and the entry of an
\* employee with no record in any of the five sources has empty lists and
\* absences_count, unpaid_leave_days, advances_total, loans_due_total,
\* sales_qty and sales_rev all 0.
C16_NoRecordsDefaults ==
  Returned =>
    \A i \in 1..Len(tbl_employees) :
      LET emp == tbl_employees[i]
      IN  (emp.active /\ (branch_id = 0 \/ emp.branch_id = branch_id)) =>
            \E r \in Entries :
              /\ r.employee = emp
              /\ NoRecords(emp.id) =>
                    /\ r.stats.absences_list = <<>>
                    /\ r.stats.advances_list = <<>>
                    /\ r.stats.leaves_list = <<>>
                    /\ r.stats.absences_count = 0
                    /\ r.stats.unpaid_leave_days = 0
                    /\ r.stats.advances_total = DecZero
                    /\ r.stats.loans_due_total = DecZero
                    /\ r.stats.sales_qty = 0
                    /\ r.stats.sales_rev = 0

C16_Witness ==
  /\ Returned
  /\ DOMAIN sales_map # {}
  /\ DOMAIN loan_due_map # {}
  /\ \E r \in Entries :
       /\ NoRecords(r.employee.id)
       /\ r.employee.id \notin DOMAIN sales_map
       /\ r.employee.id \notin DOMAIN loan_due_map
       /\ r.stats.sales_qty = 0 /\ r.stats.loans_due_total = DecZero

\* A signed amount of cents as a Decimal.
DecOfSignedCents(n) == IF n < 0 THEN DecNeg(DecOfCents(0 - n)) ELSE DecOfCents(n)

\* C14: loans_due_total is the sum of (due_total - paid_total) over the
\* schedule entries of all the employee's loans whose status is pending or
\* partial and whose due_date is in [start_date, end_date]; other entries add
\* nothing, the sum is signed and never clamped, and it is 0 when no entry
\* qualifies.
C14_LoansDueTotal ==
  Returned =>
    \A r \in Entries :
      LET rows == LoanDueRows(r.employee.id, start_date, end_date)
      IN  r.stats.loans_due_total
            = DecOfSignedCents(SumNat(rows, [l \in rows |-> l.due_total - l.paid_total]))

C14_Witness ==
  /\ Returned
  /\ \E r \in Entries :
       LET rows == LoanDueRows(r.employee.id, start_date, end_date)
       IN  /\ Cardinality({l.loan_id : l \in rows}) = 2
           /\ r.stats.loans_due_total = DecNeg(DecOfInt(30))
           /\ r.stats.loans_due_total.neg

\* The comma-separated pieces of a work_days string that are not blank.
Pieces(work_days) ==
  LET parts == SplitComma(work_days, 1, <<>>)
  IN  {parts[i] : i \in {j \in 1..Len(parts) : Strip(parts[j]) # <<>>}}

\* The work_days specification is missing, empty, or has a piece that is not
\* an integer literal.
MissingOrUnparsable(work_days) ==
  \/ work_days = NoneStr
  \/ work_days = <<>>
  \/ \E p \in Pieces(work_days) : ~ IntParses(p)

\* C18: for an employee whose work_days is missing, empty or cannot be parsed
\* as comma-separated integers, the schedule used is Monday to Saturday,
\* {0,1,2,3,4,5}: the work days of the period are counted on it, and the call
\* returns.
C18_ScheduleFallback ==
  Returned =>
    \A r \in Entries :
      MissingOrUnparsable(r.employee.work_days) =>
        /\ r.scheduled_days = {0, 1, 2, 3, 4, 5}
        /\ r.actual_work_days_count
             = Cardinality({d \in start_date..end_date : Weekday(d) # 6})

C18_Witness ==
  /\ Returned
  /\ start_date = 0 /\ end_date = 6
  /\ \E r \in Entries :
       /\ r.employee.work_days = <<"1", ",", "x">>
       /\ r.scheduled_days = {0, 1, 2, 3, 4, 5}
       /\ r.actual_work_days_count = 6

\* C19: whatever the stored work_days string, the schedule used is a
\* non-empty subset of {0,...,6}.
C19_ScheduleNonEmpty ==
  Returned =>
    \A r \in Entries :
      r.scheduled_days # {} /\ r.scheduled_days \subseteq 0..6

\* C20: an employee whose salary_frequency is not weekly is computed with the
\* monthly formulas (daily rate = salary / scheduled work days of the period,
\* gross = base salary); only a weekly employee gets the weekly formulas.
C20_WeeklyOnlySpecialCase ==
  Returned =>
    \A r \in Entries :
      LET S == BaseSalary(r.employee)
          N == r.actual_work_days_count
          k == IF r.scheduled_days # {} THEN Cardinality(r.scheduled_days) ELSE 6
      IN  IF r.employee.salary_frequency = "weekly"
          THEN /\ r.daily_rate = DecDivInt(DecDivInt(S, 4), k)
               /\ r.stats.salary = DecMulInt(r.daily_rate, N)
          ELSE /\ r.daily_rate
                    = (IF N > 0 /\ DecIsPos(S) THEN DecDivInt(S, N) ELSE DecZero)
               /\ r.stats.salary = S

\* C21: the leaves_list of an entry holds exactly the employee's leaves whose
\* start_date is in [start_date, end_date]: a leave that started before the
\* range is left out even when it extends into it, and a leave that starts
\* inside is listed even when it ends after the range.
C21_LeavesList ==
  Returned =>
    \A r \in Entries :
      /\ Range(r.stats.leaves_list) = LeaveRows(r.employee.id, start_date, end_date)
      /\ Len(r.stats.leaves_list)
           = Cardinality(LeaveRows(r.employee.id, start_date, end_date))

\* An employee with a leave that started before the range and reaches into
\* it, not listed, and a listed leave.
C21_Witness ==
  /\ Returned
  /\ \E r \in Entries :
       /\ \E l \in tbl_leaves :
            /\ l.employee_id = r.employee.id
            /\ l.start_date < start_date /\ l.end_date >= start_date
            /\ l \notin Range(r.stats.leaves_list)
       /\ r.stats.leaves_list # <<>>

\* The call in progress has the arguments and the date of the last call that
\* returned.
SameCall ==
  /\ prev.returned
  /\ prev.start_date = start_date /\ prev.end_date = end_date
  /\ prev.branch_id = branch_id /\ prev.today = today

\* An entry without its two sales figures.
WithoutSales(r) == [r EXCEPT !.stats.sales_qty = 0, !.stats.sales_rev = 0]

\* C22: sales never affect pay.  Two calls with the same arguments on stores
\* that differ only in sales rows return entries equal in every field but
\* sales_qty and sales_rev, and these two are the sums of quantity_sold and
\* total_revenue over the employee's sales rows dated in the range.
C22_SalesNeverAffectPay ==
  Returned =>
    /\ \A r \in Entries :
         LET rows == SalesRows(r.employee.id, start_date, end_date)
         IN  /\ r.stats.sales_qty = SumNat(rows, [x \in rows |-> x.quantity_sold])
             /\ r.stats.sales_rev = SumNat(rows, [x \in rows |-> x.total_revenue])
    /\ (SameCall /\ \A t \in 1..5 : prev.tables[t] = tables[t]) =>
         /\ Len(results) = Len(prev.results)
         /\ \A i \in 1..Len(results) :
              WithoutSales(results[i]) = WithoutSales(prev.results[i])

\* A second call on a store whose sales rows alone have changed, returning
\* other sales figures than the first.
C22_Witness ==
  /\ Returned /\ SameCall
  /\ \A t \in 1..5 : prev.tables[t] = tables[t]
  /\ prev.tables[6] # tbl_sales
  /\ \E i \in 1..Len(results) :
       /\ results[i].stats.sales_qty > 0
       /\ results[i].stats.sales_qty # prev.results[i].stats.sales_qty

AgreeExcept(b) ==
  /\ {e \in Range(tbl_employees) : e.id # b}
       = {e \in Range(prev.tables[1]) : e.id # b}
  /\ \A t \in 2..6 :
       {x \in tables[t] : x.employee_id # b}
         = {x \in prev.tables[t] : x.employee_id # b}

\* C24: the result of an employee does not depend on the others.  Two calls
\* with the same arguments on stores that differ only in the records, the
\* salary or the frequency of employee b return the same entry for every
\* other employee.
C24_EmployeesIndependent ==
  (Returned /\ SameCall) =>
    \A b \in EmployeeIds :
      AgreeExcept(b) =>
        \A r \in Entries :
          \A q \in Range(prev.results) :
            (r.employee.id = q.employee.id /\ r.employee.id # b) => r = q

\* A second call after records of employee b were added and b's salary
\* edited: b's entry has changed, and another employee has an entry.
C24_Witness ==
  /\ Returned /\ SameCall
  /\ \E b \in EmployeeIds :
       /\ AgreeExcept(b)
       /\ \E t \in 2..5 : tables[t] # prev.tables[t]
       /\ tbl_employees # prev.tables[1]
       /\ \E r \in Entries, q \in Range(prev.results) :
            r.employee.id = b /\ q.employee.id = b /\ r # q
       /\ \E r \in Entries : r.employee.id # b /\ r.stats.advances_list # <<>>

\* C25: get_payroll_stats is read-only.  From the moment it is called until
\* the request ends, whether it returns or a query raises, no row of any
\* table is created, changed or deleted, and the statements it has issued
\* are its six selects only.
C25_ReadOnly ==
  [][(pc # "idle" \/ pc' # "idle") =>
       /\ tables' = tables
       /\ Range(queries') \subseteq QueryPcs]_vars

\* A call that returned entries built from stored rows.
C25_Witness ==
  /\ Returned
  /\ results # <<>>
  /\ TotalRows >= 2
  /\ \E r \in Entries : r.stats.advances_list # <<>>

\* The order the statements are awaited in.
QueryOrder == <<"employees", "absences", "advances", "leaves", "sales", "loans">>

\* C26: the queries are issued one at a time in the order employees,
\* absences, advances, leaves, sales, loans: the statements issued so far
\* are always a prefix of that order, the statement about to be issued is
\* the next of it, and no entry is built before the six have returned.
C26_QueriesInOrder ==
  /\ Len(queries) <= Len(QueryOrder)
  /\ queries = SubSeq(QueryOrder, 1, Len(queries))
  /\ pc \in QueryPcs => QueryOrder[Len(queries) + 1] = pc
  /\ (pc = "build" \/ results # <<>>) => (queries = QueryOrder /\ error = "")

C26_Witness ==
  /\ Returned
  /\ results # <<>>
  /\ queries = QueryOrder

\* C27: for a weekly employee whose work_days resolves to the empty schedule
\* (such as ","), days_per_week falls back to 6: the daily rate is
\* (salary / 4) / 6, nothing is divided by zero, the work-day count is 0 and
\* the gross is 0.
C27_EmptyScheduleWeekly ==
  Returned =>
    \A r \in Entries :
      (IsWeekly(r) /\ ScheduledDays(r.employee.work_days) = {}) =>
        /\ r.daily_rate = DecDivInt(DecDivInt(BaseSalary(r.employee), 4), 6)
        /\ r.actual_work_days_count = 0
        /\ r.stats.salary = DecZero

\* The weekly employee stored with work_days "," in a period of a week, with
\* a rate that is not zero.
C27_Witness ==
  /\ Returned
  /\ end_date - start_date >= 6
  /\ \E r \in Entries :
       /\ IsWeekly(r)
       /\ r.employee.work_days = <<",">>
       /\ r.scheduled_days = {}
       /\ DecIsPos(r.daily_rate)
       /\ r.actual_work_days_count = 0

\* The employees a call with this branch_id reports on.
Reported(br) ==
  {e \in Range(tbl_employees) : e.active /\ (br = 0 \/ e.branch_id = br)}

\* C28: the list has exactly one entry per active employee, of the branch
\* when branch_id is not zero: no inactive employee, no employee of another
\* branch, none twice, none left out; branch_id None or 0 filters nothing.
C28_OneEntryPerEmployee ==
  Returned =>
    /\ {r.employee : r \in Entries} = Reported(branch_id)
    /\ Len(results) = Cardinality(Reported(branch_id))
    /\ \A i, j \in 1..Len(results) :
         results[i].employee.id = results[j].employee.id => i = j

\* A call for branch 1 on a store with an active employee of branch 2: one
\* entry, the employee of branch 1.
C28_Witness ==
  /\ Returned
  /\ branch_id = 1
  /\ Len(results) = 1
  /\ results[1].employee.branch_id = 1
  /\ \E e \in Range(tbl_employees) : e.active /\ e.branch_id = 2

\* C29: for every returned entry, total_deduction_days does not exceed the
\* number of the employee's scheduled work days in [start_date, end_date],
\* and so deduction_amount does not exceed the gross pay.
C29_DeductionBounded ==
  Returned =>
    \A r \in Entries :
      /\ r.stats.total_deduction_days
           <= ScheduledIn(start_date, end_date, ScheduledDays(r.employee.work_days))
      /\ ~ DecIsPos(DecSub(r.stats.deduction_amount, r.stats.salary))

\* C30: in employee_report_index, whatever the current date, the period of
\* a weekly employee starts on a Monday, ends six days later and contains
\* today; the period of an employee of any other frequency is the first day
\* through the last day of today's calendar month (the day after period_end
\* is the first of the next month), December and February included.
C30_SummaryPeriod ==
  selected_employee # <<>> =>
    LET date == FromOrdinal(today)
    IN  IF selected_employee[1].salary_frequency = "weekly"
        THEN /\ Weekday(ToOrdinal(period_start)) = 0
             /\ ToOrdinal(period_end) = ToOrdinal(period_start) + 6
             /\ ToOrdinal(period_start) <= today
             /\ today <= ToOrdinal(period_end)
        ELSE /\ period_start = [year |-> date.year, month |-> date.month, day |-> 1]
             /\ period_end = [year |-> date.year, month |-> date.month,
                              day |-> DaysInMonth(date.year, date.month)]
             /\ FromOrdinal(ToOrdinal(period_end) + 1).day = 1

\* The page of an employee who is not weekly, opened in February 2024: the
\* period ends on the 29th.
C30_Witness ==
  /\ selected_employee # <<>>
  /\ selected_employee[1].salary_frequency # "weekly"
  /\ period_start = [year |-> 2024, month |-> 2, day |-> 1]
  /\ period_end = [year |-> 2024, month |-> 2, day |-> 29]


====
